---- MODULE Spec2Model ----
(***************************************************************************)
(* Model of the SmartPrint-3D backend: the keying pipeline of              *)
(* smart_splitter.py (SmartSplitter) and the request handlers of main.py.  *)
(*                                                                         *)
(* Lengths are fixed-point numbers, 1 unit = 0.01 mm.  A product or a      *)
(* quotient that is not a whole number of units is truncated to the unit.  *)
(*                                                                         *)
(* A cap polygon is given in the frame of its minimum rotated rectangle:   *)
(* the rectangle is [0, nc*cw] x [0, nr*ch], cut into nc x nr cells, and   *)
(* the polygon is the union of the closed cells listed in "cells".  The    *)
(* four corner cells always belong to the polygon, so its convex hull is   *)
(* the rectangle and the rectangle is its minimum rotated rectangle.       *)
(***************************************************************************)
EXTENDS Integers, Sequences, FiniteSets, TLC

VARIABLES
    pc,         \* position of the operation of the specification at hand
    poly,       \* planner input: the cap polygon
    rect_order, \* planner input: <<first corner, counter-clockwise?>> of min_rect.exterior
    pl_raise,   \* planner input: polylabel raises on a MultiPolygon
    cap_in,     \* planner input: the faces of half A and the outcome of the projection
    plan,       \* _analyze_cap_surface: its locals at return and its result
    pin_in,     \* _create_chamfered_pin input: radius, height, chamfer, flags
    pin_mesh,   \* _create_chamfered_pin: profile, vertices and faces
    key_in,     \* perform_split_and_key input: cap outcome and library failures
    key_out,    \* perform_split_and_key: its locals at return and its result
    file_registry, \* main.py: file_registry
    disk,       \* files under UPLOAD_DIR and OUTPUT_DIR
    next_uuid,  \* uuid.uuid4(): the next fresh id
    response,   \* the last response of a request handler
    self_mesh,  \* suggest_split: self.mesh (bounds and centroid)
    req_axis,   \* suggest_split: req.axis
    suggestions \* suggest_split: the responses of the calls made so far

vars == <<pc, poly, rect_order, pl_raise, cap_in, plan, pin_in, pin_mesh, key_in,
          key_out, file_registry, disk, next_uuid, response, self_mesh,
          req_axis, suggestions>>

None == "None"

----------------------------------------------------------------------------
(* Bounds of the model *)

MaxCols == 3
MaxRows == 3
MaxRemoved == 2

\* <<cell width, cell height>> of the polygons explored, in units
DimPairs == { <<1000, 1000>>, <<3600, 3600>>, <<1000, 100>>,
              <<100, 1000>>, <<100, 6>>, <<6, 100>>, <<24, 6>> }

----------------------------------------------------------------------------
(* Arithmetic helpers *)

Abs(a) == IF a < 0 THEN -a ELSE a
Max2(a, b) == IF a >= b THEN a ELSE b
Min2(a, b) == IF a <= b THEN a ELSE b

SetMin(S) == CHOOSE m \in S : \A o \in S : m <= o
SetMax(S) == CHOOSE m \in S : \A o \in S : m >= o

RECURSIVE SqrtSearch(_, _, _)
SqrtSearch(n, lo, hi) ==
    IF lo >= hi THEN lo
    ELSE LET mid == (lo + hi + 1) \div 2
         IN IF mid * mid <= n THEN SqrtSearch(n, mid, hi)
                              ELSE SqrtSearch(n, lo, mid - 1)

\* floor of the square root (distances are truncated to the unit)
ISqrt(n) == SqrtSearch(n, 0, 46340)

\* the sum of 2*c[k]+1 over the cells c of a set
RECURSIVE SumOdd(_, _)
SumOdd(S, k) ==
    IF S = {} THEN 0
    ELSE LET c == CHOOSE v \in S : TRUE
         IN (2 * c[k] + 1) + SumOdd(S \ {c}, k)

----------------------------------------------------------------------------
(* shapely: the 2D geometry of a cap polygon *)

Pt(px, py) == [x |-> px, y |-> py]

GridCells(nc, nr) == (0 .. nc - 1) \X (0 .. nr - 1)
CornerCells(nc, nr) == { <<0, 0>>, <<nc - 1, 0>>, <<0, nr - 1>>, <<nc - 1, nr - 1>> }

RectW(p) == p.nc * p.cw
RectH(p) == p.nr * p.ch

\* Point.distance(Point)
PointDistance(a, b) == ISqrt((a.x - b.x) * (a.x - b.x) + (a.y - b.y) * (a.y - b.y))

\* the cells whose closed square holds the point
CellsAt(p, q) ==
    { c \in (-1 .. p.nc) \X (-1 .. p.nr) :
        /\ c[1] * p.cw <= q.x /\ q.x <= (c[1] + 1) * p.cw
        /\ c[2] * p.ch <= q.y /\ q.y <= (c[2] + 1) * p.ch }

\* main_poly.contains(pt): the point is in the interior of the polygon
Contains(p, q) == CellsAt(p, q) \subseteq p.cells

\* boundary-inclusive membership
Covers(p, q) == CellsAt(p, q) \cap p.cells # {}

\* main_poly.boundary: the cell sides with the polygon on one side only,
\* as <<x1, y1, x2, y2>> with x1 <= x2 and y1 <= y2
BoundarySegments(p) ==
    UNION { LET cx == c[1] * p.cw
                cy == c[2] * p.ch
            IN  (IF <<c[1] - 1, c[2]>> \notin p.cells
                   THEN { <<cx, cy, cx, cy + p.ch>> } ELSE {})
                \cup
                (IF <<c[1] + 1, c[2]>> \notin p.cells
                   THEN { <<cx + p.cw, cy, cx + p.cw, cy + p.ch>> } ELSE {})
                \cup
                (IF <<c[1], c[2] - 1>> \notin p.cells
                   THEN { <<cx, cy, cx + p.cw, cy>> } ELSE {})
                \cup
                (IF <<c[1], c[2] + 1>> \notin p.cells
                   THEN { <<cx, cy + p.ch, cx + p.cw, cy + p.ch>> } ELSE {})
          : c \in p.cells }

\* squared distance of a point to a segment parallel to an axis
SegDist2(q, s) ==
    LET dx == Max2(0, Max2(s[1] - q.x, q.x - s[3]))
        dy == Max2(0, Max2(s[2] - q.y, q.y - s[4]))
    IN dx * dx + dy * dy

\* pt.distance(main_poly.boundary)
BoundaryDistance(p, q) ==
    ISqrt(SetMin({ SegDist2(q, s) : s \in BoundarySegments(p) }))

\* main_poly.centroid: the mean of the centres of the (equal) cells
Centroid(p) ==
    LET n == Cardinality(p.cells)
    IN Pt((SumOdd(p.cells, 1) * p.cw) \div (2 * n),
          (SumOdd(p.cells, 2) * p.ch) \div (2 * n))

\* the cells reachable from a set of cells through shared sides
RECURSIVE Reach(_, _)
Reach(p, S) ==
    LET T == S \cup { c \in p.cells :
                        \E d \in S : Abs(c[1] - d[1]) + Abs(c[2] - d[2]) = 1 }
    IN IF T = S THEN S ELSE Reach(p, T)

\* isinstance(poly_or_multi, MultiPolygon): the polygon has several parts
IsMultiPolygon(p) == Reach(p, { <<0, 0>> }) # p.cells

\* min_rect.exterior.coords: the five points of the closed ring
RectCorner(p, k) ==
    CASE k = 0 -> Pt(0, 0)
      [] k = 1 -> Pt(RectW(p), 0)
      [] k = 2 -> Pt(RectW(p), RectH(p))
      [] k = 3 -> Pt(0, RectH(p))

MinRectCoords(p, order) ==
    [i \in 0 .. 4 |->
        RectCorner(p, IF order[2] THEN (order[1] + i) % 4
                                  ELSE (order[1] + 4 - (i % 4)) % 4)]

\* line.interpolate(fraction, normalized=True) with fraction = num / den
Interpolate(s, e, num, den) ==
    Pt(s.x + ((e.x - s.x) * num) \div den, s.y + ((e.y - s.y) * num) \div den)

\* polylabel(main_poly, tolerance=0.1): a point of the interior whose distance
\* to the boundary is within the tolerance of the largest one, looked for
\* on the lattice of half cells
PolylabelTolerance == 10

LatticePoints(p) ==
    { Pt((i * p.cw) \div 2, (j * p.ch) \div 2) :
        i \in 0 .. 2 * p.nc, j \in 0 .. 2 * p.nr }

PolylabelPoints(p) ==
    LET inside == { q \in LatticePoints(p) : Contains(p, q) }
        best == SetMax({ BoundaryDistance(p, q) : q \in inside })
    IN { q \in inside : BoundaryDistance(p, q) + PolylabelTolerance >= best }

----------------------------------------------------------------------------
(* SmartSplitter._analyze_cap_surface *)

\* np.abs(distances) < 1e-4, with the distances in units of 1e-5 mm
OnPlaneEps == 10

\* mutant: a vertex at the tolerance counts as on the plane
CapFacesIndicesInclusive(faces) ==
    { i \in DOMAIN faces : \A k \in 1 .. 3 : Abs(faces[i][k]) <= OnPlaneEps }

\* face_mask: the faces whose three vertices are all on the plane
CapFacesIndices(faces) ==
    { i \in DOMAIN faces : \A k \in 1 .. 3 : Abs(faces[i][k]) < OnPlaneEps }

\* if width < 0.1: width = 0.1
MinWidth == 10

\* mutant: the guard against a division by zero is left out
ClampWidthNoGuard(width) == width

ClampWidth(width) == IF width < MinWidth THEN MinWidth ELSE width

\* the pin count of aspect_ratio = length / width
NumPins(length, width) ==
    IF length > 10 * width THEN 3
    ELSE IF length > 3 * width THEN 2
    ELSE 1

\* the long centre line in the branch dist01 >= dist12
CenterLine(co) ==
    [start |-> Pt((co[0].x + co[3].x) \div 2, (co[0].y + co[3].y) \div 2),
     end   |-> Pt((co[1].x + co[2].x) \div 2, (co[1].y + co[2].y) \div 2)]

\* the candidate points of a layout of n pins along the line
Candidates(line, n) ==
    [i \in 1 .. n |-> Interpolate(line.start, line.end, 2 * (i - 1) + 1, 2 * n)]

\* mutant: the candidates are kept without the containment test
KeepInsideUnchecked(p, cands) == cands

\* the candidates that main_poly.contains, in the order of the loop
RECURSIVE KeepInside(_, _)
KeepInside(p, cands) ==
    IF cands = <<>> THEN <<>>
    ELSE (IF Contains(p, Head(cands)) THEN <<Head(cands)>> ELSE <<>>)
         \o KeepInside(p, Tail(cands))

NoPlan ==
    [result |-> None, stage |-> "none", length |-> 0, width |-> 0,
     num_pins |-> 0, candidates |-> <<>>, centers |-> <<>>,
     max_radius |-> 0, polylabel |-> FALSE, fallback |-> FALSE]

\* the outcome of polylabel: a point, or an exception
PlPoint(q) == [raised |-> FALSE, pt |-> q]
PlRaised == [raised |-> TRUE, pt |-> Pt(0, 0)]

\* Steps 5 to 7.  pl is the outcome of polylabel.
PlanPins(p, order, pl) ==
    LET co == MinRectCoords(p, order)
        edge_lengths == [i \in 0 .. 3 |-> PointDistance(co[i], co[i + 1])]
        length == SetMax({ edge_lengths[i] : i \in 0 .. 3 })
        width == ClampWidth(SetMin({ edge_lengths[i] : i \in 0 .. 3 }))
        num_pins == NumPins(length, width)
        dist01 == PointDistance(co[0], co[1])
        dist12 == PointDistance(co[1], co[2])
        base == [NoPlan EXCEPT !.length = length, !.width = width,
                               !.num_pins = num_pins]
        Done(cs, usedpl, fb) ==
            [base EXCEPT !.result = "ok", !.stage = "done", !.centers = cs,
                         !.max_radius = BoundaryDistance(p, cs[1]),
                         !.polylabel = usedpl, !.fallback = fb]
    IN
    IF num_pins = 1
    THEN IF Contains(p, Centroid(p))
         THEN Done(<<Centroid(p)>>, FALSE, FALSE)
         ELSE IF pl.raised
              THEN [base EXCEPT !.stage = "polylabel raised", !.polylabel = TRUE]
              ELSE Done(<<pl.pt>>, TRUE, FALSE)
    ELSE IF dist01 >= dist12
    THEN LET cands == Candidates(CenterLine(co), num_pins)
             kept == KeepInside(p, cands)
         IN IF kept # <<>>
            THEN [Done(kept, FALSE, FALSE) EXCEPT !.candidates = cands]
            ELSE IF pl.raised
                 THEN [base EXCEPT !.stage = "polylabel raised",
                                   !.candidates = cands, !.polylabel = TRUE,
                                   !.fallback = TRUE]
                 ELSE [Done(<<pl.pt>>, TRUE, TRUE) EXCEPT !.candidates = cands]
    \* the other branch reads p3, which only the first branch assigns:
    \* UnboundLocalError, caught by the except clause of the function
    ELSE [base EXCEPT !.stage = "p3 unbound"]

\* The whole function.  cin.faces are the faces of the half (the distances of
\* their vertices to the plane), cin.projected the outcome of
\* trimesh.path.polygons.projected, cin.error an exception of a library call
\* of steps 2 to 4.
AnalyzeCapSurface(cin, p, order, pl) ==
    IF CapFacesIndices(cin.faces) = {} THEN [NoPlan EXCEPT !.stage = "no cap faces"]
    ELSE IF cin.error THEN [NoPlan EXCEPT !.stage = "error"]
    ELSE IF cin.projected = "empty" THEN [NoPlan EXCEPT !.stage = "empty projection"]
    ELSE PlanPins(p, order, pl)

\* polylabel is called by the function on this input
CallsPolylabel(cin, p, order) ==
    /\ CapFacesIndices(cin.faces) # {} /\ ~cin.error /\ cin.projected = "polygon"
    /\ LET q == PlanPins(p, order, PlRaised) IN q.stage = "polylabel raised"

\* what polylabel can do on a polygon: a MultiPolygon makes it raise in the
\* releases of shapely that read polygon.exterior
PolylabelOutcomes(p, raises) ==
    IF IsMultiPolygon(p) /\ raises THEN { PlRaised }
    ELSE { PlPoint(q) : q \in PolylabelPoints(p) }

----------------------------------------------------------------------------
(* SmartSplitter._create_chamfered_pin *)

\* sections = 32
Sections == 32

\* a quotient truncated towards zero
Trunc(a, b) == IF a >= 0 THEN a \div b ELSE -((-a) \div b)

\* 1000 * cos(2 * pi * j / 32) for j = 0 .. 8
CosQuarter == <<1000, 981, 924, 831, 707, 556, 383, 195, 0>>

\* np.cos(theta)[j] and np.sin(theta)[j], in thousandths
CosTheta(j) ==
    LET k == j % Sections
    IN IF k <= 8 THEN CosQuarter[k + 1]
       ELSE IF k <= 16 THEN -CosQuarter[16 - k + 1]
       ELSE IF k <= 24 THEN -CosQuarter[k - 16 + 1]
       ELSE CosQuarter[32 - k + 1]

SinTheta(j) == CosTheta(j + 24)

\* mutant: the chamfer is refitted only when it needs more than the height
FitChamferStrict(height, chamfer, taper_top, flare_bottom) ==
    LET needed_height == (IF taper_top THEN chamfer ELSE 0)
                         + (IF flare_bottom THEN chamfer ELSE 0)
    IN IF needed_height > height THEN height \div 3 ELSE chamfer

\* "Ensure chamfer isn't too big"
FitChamfer(height, chamfer, taper_top, flare_bottom) ==
    LET needed_height == (IF taper_top THEN chamfer ELSE 0)
                         + (IF flare_bottom THEN chamfer ELSE 0)
    IN IF needed_height >= height THEN height \div 3 ELSE chamfer

\* the profile, a list of <<z, r>>
Profile(radius, height, chamfer, taper_top, flare_bottom) ==
    LET c == FitChamfer(height, chamfer, taper_top, flare_bottom)
    IN (IF flare_bottom THEN << <<0, radius + c>>, <<c, radius>> >>
                        ELSE << <<0, radius>> >>)
       \o
       (IF taper_top THEN << <<height - c, radius>>, <<height, radius - c>> >>
                     ELSE << <<height, radius>> >>)

\* the vertices of the rings, then the centre of the bottom, then of the top;
\* vertex k of the code (from 0) is element k + 1
PinVertices(profile) ==
    LET num_rings == Len(profile)
    IN [k \in 1 .. Sections * num_rings + 2 |->
          IF k <= Sections * num_rings
          THEN LET ring == profile[((k - 1) \div Sections) + 1]
                   j == (k - 1) % Sections
               IN << Trunc(ring[2] * CosTheta(j), 1000),
                     Trunc(ring[2] * SinTheta(j), 1000), ring[1] >>
          ELSE IF k = Sections * num_rings + 1
          THEN << 0, 0, profile[1][1] >>
          ELSE << 0, 0, profile[num_rings][1] >>]

\* the two triangles of quad j between ring i and ring i + 1
SideFaces(num_rings) ==
    [k \in 1 .. 2 * Sections * (num_rings - 1) |->
        LET q == (k - 1) \div 2
            i == q \div Sections
            j == q % Sections
            j_next == (j + 1) % Sections
            base_i == i * Sections
            base_next == (i + 1) * Sections
        IN IF (k - 1) % 2 = 0
           THEN << base_i + j, base_i + j_next, base_next + j >>
           ELSE << base_next + j, base_i + j_next, base_next + j_next >>]

BottomFaces(num_rings) ==
    [k \in 1 .. Sections |->
        LET j == k - 1
            j_next == (j + 1) % Sections
            bottom_center_idx == Sections * num_rings
        IN << bottom_center_idx, j_next, j >>]

TopFaces(num_rings) ==
    [k \in 1 .. Sections |->
        LET j == k - 1
            j_next == (j + 1) % Sections
            top_center_idx == Sections * num_rings + 1
            base_top == (num_rings - 1) * Sections
        IN << top_center_idx, base_top + j, base_top + j_next >>]

CreateChamferedPin(radius, height, chamfer, taper_top, flare_bottom) ==
    LET profile == Profile(radius, height, chamfer, taper_top, flare_bottom)
        num_rings == Len(profile)
    IN [profile |-> profile,
        vertices |-> PinVertices(profile),
        faces |-> SideFaces(num_rings) \o BottomFaces(num_rings) \o TopFaces(num_rings)]

----------------------------------------------------------------------------
(* SmartSplitter.perform_split_and_key *)

\* pin_radius = max(2.0, min(max_radius * 0.6, 20.0))
MinPinRadius == 200
MaxPinRadius == 2000
\* pin_height = max(10.0, min(pin_radius * 3.0, 30.0))
MinPinHeight == 1000
MaxPinHeight == 3000
\* tolerance = 0.4
Tolerance == 40

\* mutant: the radius is taken whole, without the factor 0.6
PinRadiusWhole(max_radius) ==
    Max2(MinPinRadius, Min2(max_radius, MaxPinRadius))

PinRadius(max_radius) ==
    Max2(MinPinRadius, Min2((max_radius * 6) \div 10, MaxPinRadius))

\* mutant: the height is not held to at least 10 mm
PinHeightNoFloor(pin_radius) == Min2(pin_radius * 3, MaxPinHeight)

PinHeight(pin_radius) ==
    Max2(MinPinHeight, Min2(pin_radius * 3, MaxPinHeight))

\* mutant: the cutter is as wide as the pin
HoleRadiusTight(pin_radius) == pin_radius

HoleRadius(pin_radius) == pin_radius + Tolerance \div 2

\* 0.1 * diameter
Chamfer(radius) == (2 * radius) \div 10

\* the faces of a capped half, as the distances of their vertices to the
\* plane in units of 1e-5 mm: a face of the body and a face of the cap
SlicedFaces == << <<0, 0, 200000>>, <<0, 0, 0>> >>

\* trimesh.intersections.slice_mesh_plane(self.mesh, ..., cap=True): a half,
\* "A" on the side of the normal and "B" on the other side
SlicedHalf(side) == [body |-> side, op |-> "slice", parts |-> <<>>]

\* a pin or a cutter made by _create_chamfered_pin, turned by the rotation of
\* +Z onto -normal and moved to the centre: it leaves the plane at the centre
\* and runs along -normal over its height
Placed(center, radius, height, chamfer, taper_top, flare_bottom) ==
    [center |-> center, axis |-> "-normal", radius |-> radius, height |-> height,
     profile |-> Profile(radius, height, chamfer, taper_top, flare_bottom)]

MakePins(centers, pin_radius, pin_height) ==
    [i \in DOMAIN centers |->
        Placed(centers[i], pin_radius, pin_height, Chamfer(pin_radius), TRUE, TRUE)]

MakeHoleCutters(centers, pin_radius, pin_height) ==
    [i \in DOMAIN centers |->
        Placed(centers[i], HoleRadius(pin_radius), pin_height,
               Chamfer(HoleRadius(pin_radius)), FALSE, TRUE)]

\* mutant: the fallback of the union drops the pins
UnionFallbackNoPins(mesh_a, pins) == mesh_a

\* the except clause of the union: trimesh.util.concatenate([mesh_a] + pins)
UnionFallback(mesh_a, pins) == [body |-> mesh_a.body, op |-> "concatenate", parts |-> pins]

\* "Union Pins to Mesh A"
KeyedA(mesh_a, pins, union_raises) ==
    IF union_raises THEN UnionFallback(mesh_a, pins)
    ELSE [body |-> mesh_a.body, op |-> "union", parts |-> pins]

\* the except clause of the difference: mesh_b_keyed = mesh_b
DifferenceFallback(mesh_b, hole_cutters) == mesh_b

\* "Difference Holes from Mesh B"
KeyedB(mesh_b, hole_cutters, difference_raises) ==
    IF difference_raises THEN DifferenceFallback(mesh_b, hole_cutters)
    ELSE [body |-> mesh_b.body, op |-> "difference", parts |-> hole_cutters]

NoKeys ==
    [status |-> "returned", keyed |-> FALSE, cap |-> NoPlan,
     pin_radius |-> 0, pin_height |-> 0, hole_radius |-> 0, hole_height |-> 0,
     pins |-> <<>>, hole_cutters |-> <<>>, booleans |-> {},
     part_a |-> SlicedHalf("A"), part_b |-> SlicedHalf("B")]

\* The whole method.  kin names the library calls that raise: align_raises is
\* trimesh.geometry.align_vectors(z_axis, target_direction), union_raises is
\* trimesh.boolean.union, difference_raises is trimesh.boolean.difference.
PerformSplitAndKey(cin, p, order, pl, kin) ==
    LET mesh_a == SlicedHalf("A")
        mesh_b == SlicedHalf("B")
        cap_data == AnalyzeCapSurface(cin, p, order, pl)
    IN
    IF cap_data.result = None
    THEN [NoKeys EXCEPT !.cap = cap_data]
    ELSE
    LET pin_radius == PinRadius(cap_data.max_radius)
        pin_height == PinHeight(pin_radius)
        sized == [NoKeys EXCEPT !.cap = cap_data, !.pin_radius = pin_radius,
                                !.pin_height = pin_height]
    IN
    \* the rotation is computed outside any try block
    IF kin.align_raises THEN [sized EXCEPT !.status = "raised"]
    ELSE
    LET pins == MakePins(cap_data.centers, pin_radius, pin_height)
        hole_cutters == MakeHoleCutters(cap_data.centers, pin_radius, pin_height)
    IN [sized EXCEPT !.keyed = TRUE,
                     !.hole_radius = HoleRadius(pin_radius),
                     !.hole_height = pin_height,
                     !.pins = pins, !.hole_cutters = hole_cutters,
                     !.booleans = { "union", "difference" },
                     !.part_a = KeyedA(mesh_a, pins, kin.union_raises),
                     !.part_b = KeyedB(mesh_b, hole_cutters, kin.difference_raises)]

----------------------------------------------------------------------------
(* main.py: the file registry and the request handlers *)

\* A mesh on disk is a box [0, e1] x [0, e2] x [0, e3], given by its extents.
\* A plane is [axis |-> 1 .. 3, sign |-> 1 or -1, at |-> coordinate on the
\* axis]: normal = sign * e_axis, origin on the axis at "at".

\* the two axes of the cut plane, in order; the second is Z unless Z is cut
OtherAxes(axis) == CASE axis = 1 -> <<2, 3>> [] axis = 2 -> <<1, 3>> [] axis = 3 -> <<1, 2>>

\* the cap of half A: the section of the box, one cell of a 1 x 1 grid
CapOfBox(box, plane) ==
    [nc |-> 1, nr |-> 1, cw |-> box[OtherAxes(plane.axis)[1]],
     ch |-> box[OtherAxes(plane.axis)[2]], cells |-> { <<0, 0>> }]

\* the outward normal of the cut face of a half, as a sign on the axis:
\* "Part A: Cut normal is -normal", "Part B: Cut normal is normal"
CutNormalSign(plane, side) == IF side = "A" THEN -plane.sign ELSE plane.sign

\* how far a half reaches behind its cut face
Depth(box, plane, side) ==
    IF CutNormalSign(plane, side) = 1 THEN plane.at ELSE box[plane.axis] - plane.at

\* how far the parts added to a half stand out of its cut face: the pins that
\* the union or the concatenation added to half A run along -normal
Protrusion(mesh) ==
    IF mesh.op \in { "union", "concatenate" }
    THEN SetMax({ mesh.parts[i].height : i \in DOMAIN mesh.parts })
    ELSE 0

\* the largest radius of a profile
ProfileRadius(profile) == SetMax({ profile[i][2] : i \in DOMAIN profile })

\* the Z range the added parts cover when the cut plane is vertical
SidePartsZ(mesh) ==
    IF mesh.op \in { "union", "concatenate" }
    THEN { mesh.parts[i].center.y - ProfileRadius(mesh.parts[i].profile)
             : i \in DOMAIN mesh.parts }
         \cup
         { mesh.parts[i].center.y + ProfileRadius(mesh.parts[i].profile)
             : i \in DOMAIN mesh.parts }
    ELSE {}

\* A half as the handler holds it: the mesh, its bounds along Z (zlo, zhi),
\* the Z range of its cut face (cut_lo, cut_hi) and whether the cut face
\* looks down (its outward normal is (0, 0, -1)).
SlicedPart(box, plane, side, mesh) ==
    LET d == CutNormalSign(plane, side)
    IN IF plane.axis = 3
       THEN LET far == plane.at - d * Depth(box, plane, side)
                tip == plane.at + d * Protrusion(mesh)
            IN [mesh |-> mesh, zlo |-> Min2(far, tip), zhi |-> Max2(far, tip),
                cut_lo |-> plane.at, cut_hi |-> plane.at, cut_down |-> d = -1]
       ELSE [mesh |-> mesh,
             zlo |-> SetMin({ 0 } \cup SidePartsZ(mesh)),
             zhi |-> SetMax({ box[3] } \cup SidePartsZ(mesh)),
             cut_lo |-> 0, cut_hi |-> box[3], cut_down |-> FALSE]

\* part.apply_transform(align_vectors(cut normal, z_down)): a rotation about
\* the origin that sends the cut normal d to (0, 0, -1) sends a point p to the
\* height -(p . d)
ApplyAlign(part, box, plane, side) ==
    LET d == CutNormalSign(plane, side)
        face == -(d * plane.at)
    IN [part EXCEPT !.zlo = face - Protrusion(part.mesh),
                    !.zhi = face + Depth(box, plane, side),
                    !.cut_lo = face, !.cut_hi = face, !.cut_down = TRUE]

\* try: T = align_vectors(...); part.apply_transform(T)  except: pass
Reorient(part, box, plane, side, align_raises) ==
    IF align_raises THEN part ELSE ApplyAlign(part, box, plane, side)

\* part.apply_translation([0, 0, -part.bounds[0][2]])
MoveToFloor(part) ==
    [part EXCEPT !.zlo = 0, !.zhi = part.zhi - part.zlo,
                 !.cut_lo = part.cut_lo - part.zlo,
                 !.cut_hi = part.cut_hi - part.zlo]

\* os.path.join(OUTPUT_DIR, f"{base_name}_part_a_{id_a}.stl")
OutputPath(base_name, part, id) ==
    [dir |-> "outputs", base |-> base_name, part |-> part, id |-> id]

\* os.path.join(UPLOAD_DIR, f"{file_id}_{file.filename}")
UploadPath(file_id, filename) ==
    [dir |-> "uploads", base |-> <<file_id, filename>>, part |-> "", id |-> file_id]

\* the library calls of a request that can raise
FaultPoints ==
    { "load", "slice", "align_cap", "align_key", "union", "difference",
      "align_a", "align_b", "export_a", "export_b", "volume" }

\* the calls of align_vectors among them
AlignPoints == { "align_cap", "align_key", "align_a", "align_b" }

NoPart == [mesh |-> SlicedHalf(""), zlo |-> 0, zhi |-> 0, cut_lo |-> 0,
           cut_hi |-> 0, cut_down |-> FALSE]

\* the calls of perform_split_and_key that raised, when the handler called it
KeyingRaised(req, faults, keyed) ==
    IF ~req.addKeys THEN {}
    ELSE (faults \cap { "align_cap" })
         \cup (IF keyed.status = "raised" THEN { "align_key" } ELSE {})
         \cup (IF keyed.keyed THEN faults \cap { "union", "difference" } ELSE {})

\* "Align parts to build plate" and "Move to floor (Z=0)" for one half
OnBuildPlate(box, plane, side, mesh, align_raises) ==
    MoveToFloor(Reorient(SlicedPart(box, plane, side, mesh), box, plane, side,
                         align_raises))

\* the response of a request that raised, with the files it left on disk and
\* the number of ids it drew from uuid4
Failed(raised, files, uuids) ==
    [status |-> 500, raised |-> raised, part_a |-> NoPart, part_b |-> NoPart,
     files |-> files, ids |-> {}, keys |-> FALSE, uuids |-> uuids]

\* "Export results" to the end of the handler: the two exports, the two
\* entries of the registry, and the response, which reads the volumes
ExportAndRespond(raised, faults, file_a, file_b, id_a, id_b, keys) ==
    IF "export_a" \in faults THEN Failed(raised \cup { "export_a" }, {}, 2)
    ELSE IF "export_b" \in faults THEN Failed(raised \cup { "export_b" }, { file_a }, 2)
    ELSE IF "volume" \in faults
    THEN [Failed(raised \cup { "volume" }, { file_a, file_b }, 2)
            EXCEPT !.ids = { <<id_a, file_a.path>>, <<id_b, file_b.path>> }]
    ELSE [status |-> 200, raised |-> raised,
          part_a |-> file_a.content, part_b |-> file_b.content,
          files |-> { file_a, file_b },
          ids |-> { <<id_a, file_a.path>>, <<id_b, file_b.path>> },
          keys |-> keys, uuids |-> 2]

\* the handler from the split on: keyed is what perform_split_and_key did
AfterSplit(req, box, faults, id_a, id_b, base_name, keyed) ==
    IF req.addKeys /\ keyed.status = "raised"
    THEN Failed(KeyingRaised(req, faults, keyed), {}, 0)
    ELSE ExportAndRespond(
           KeyingRaised(req, faults, keyed) \cup (faults \cap { "align_a", "align_b" }),
           faults,
           [path |-> OutputPath(base_name, "a", id_a),
            content |-> OnBuildPlate(box, req.plane, "A",
                          IF req.addKeys THEN keyed.part_a ELSE SlicedHalf("A"),
                          "align_a" \in faults)],
           [path |-> OutputPath(base_name, "b", id_b),
            content |-> OnBuildPlate(box, req.plane, "B",
                          IF req.addKeys THEN keyed.part_b ELSE SlicedHalf("B"),
                          "align_b" \in faults)],
           id_a, id_b, req.addKeys /\ keyed.keyed)

\* What a request of perform_split does.  req is the request, box the mesh of
\* the file, order and pl the choices of shapely, faults the calls that raise
\* when they are reached, id_a and id_b the fresh ids.  The result names the
\* response, the calls that raised, and the files and ids to add.
SplitOutcome(req, box, order, pl, faults, id_a, id_b, base_name) ==
    IF "load" \in faults THEN Failed({ "load" }, {}, 0)
    ELSE IF "slice" \in faults THEN Failed({ "slice" }, {}, 0)
    ELSE AfterSplit(req, box, faults, id_a, id_b, base_name,
           PerformSplitAndKey(
             [faces |-> SlicedFaces, projected |-> "polygon",
              error |-> "align_cap" \in faults],
             CapOfBox(box, req.plane), order, pl,
             [align_raises |-> "align_key" \in faults,
              union_raises |-> "union" \in faults,
              difference_raises |-> "difference" \in faults]))

----------------------------------------------------------------------------
(* The inputs explored *)

Idle == "idle"

\* a size below the unit of a tenth of a millimetre is given to one cell only
GridShapes ==
    { g \in (1 .. MaxCols) \X (1 .. MaxRows) \X DimPairs :
        /\ (g[3][1] < MinWidth => g[1] = 1)
        /\ (g[3][2] < MinWidth => g[2] = 1) }

Removals(nc, nr) ==
    { r \in SUBSET (GridCells(nc, nr) \ CornerCells(nc, nr)) :
        Cardinality(r) <= MaxRemoved }

Polygons ==
    UNION { { [nc |-> g[1], nr |-> g[2], cw |-> g[3][1], ch |-> g[3][2],
               cells |-> GridCells(g[1], g[2]) \ r] : r \in Removals(g[1], g[2]) }
            : g \in GridShapes }

RectOrders == (0 .. 3) \X BOOLEAN

\* a side face, a cap face, a face just inside and one just at the tolerance
FaceSets ==
    { << <<0, 0, 200000>> >>,
      << <<0, 0, 200000>>, <<0, 0, 0>> >>,
      << <<0, 0, 200000>>, <<9, -9, 0>> >>,
      << <<0, 0, 200000>>, <<10, 0, 0>> >>,
      << <<0, 0, 200000>>, <<0, -10, 0>> >> }

CapInputs ==
    { [faces |-> f, projected |-> pr, error |-> e] :
        f \in FaceSets, pr \in { "polygon", "empty" }, e \in BOOLEAN }

\* the cap input given with every polygon; the others come with one polygon
PlainCap == [faces |-> SlicedFaces, projected |-> "polygon", error |-> FALSE]

PlainPolygon == [nc |-> 1, nr |-> 1, cw |-> 1000, ch |-> 1000, cells |-> { <<0, 0>> }]

----------------------------------------------------------------------------
(* Specification of the planner: one call of _analyze_cap_surface *)

InitPlanner ==
    /\ pc = "start"
    /\ cap_in \in CapInputs
    /\ IF cap_in = PlainCap
       THEN /\ poly \in Polygons
            /\ rect_order \in RectOrders
            /\ pl_raise \in (IF IsMultiPolygon(poly) THEN BOOLEAN ELSE { FALSE })
       ELSE /\ poly = PlainPolygon
            /\ rect_order = <<0, TRUE>>
            /\ pl_raise = FALSE
    /\ plan = NoPlan
    /\ pin_in = Idle /\ pin_mesh = Idle /\ key_in = Idle /\ key_out = Idle
    /\ file_registry = Idle /\ disk = Idle /\ next_uuid = 0 /\ response = Idle
    /\ self_mesh = Idle /\ req_axis = Idle /\ suggestions = Idle

AnalyzeCap ==
    /\ pc = "start"
    /\ \E pl \in (IF CallsPolylabel(cap_in, poly, rect_order)
                   THEN PolylabelOutcomes(poly, pl_raise) ELSE { PlRaised }) :
          plan' = AnalyzeCapSurface(cap_in, poly, rect_order, pl)
    /\ pc' = "done"
    /\ UNCHANGED <<poly, rect_order, pl_raise, cap_in, pin_in, pin_mesh, key_in,
                   key_out, file_registry, disk, next_uuid, response,
                   self_mesh, req_axis, suggestions>>

NextPlanner == AnalyzeCap

SpecPlanner == InitPlanner /\ [][NextPlanner]_vars

----------------------------------------------------------------------------
(* Specification of the keying: one call of perform_split_and_key *)

KeyPolygons ==
    { p \in Polygons : Cardinality(GridCells(p.nc, p.nr) \ p.cells) <= 1 }

KeyFaults ==
    [align_raises : BOOLEAN, union_raises : BOOLEAN, difference_raises : BOOLEAN]

InitKey ==
    /\ pc = "start"
    /\ cap_in \in CapInputs
    /\ key_in \in KeyFaults
    /\ IF cap_in = PlainCap
       THEN /\ poly \in KeyPolygons
            /\ rect_order \in RectOrders
            /\ pl_raise \in (IF IsMultiPolygon(poly) THEN BOOLEAN ELSE { FALSE })
       ELSE /\ poly = PlainPolygon
            /\ rect_order = <<0, TRUE>>
            /\ pl_raise = FALSE
    /\ plan = NoPlan /\ key_out = Idle
    /\ pin_in = Idle /\ pin_mesh = Idle
    /\ file_registry = Idle /\ disk = Idle /\ next_uuid = 0 /\ response = Idle
    /\ self_mesh = Idle /\ req_axis = Idle /\ suggestions = Idle

SplitAndKey ==
    /\ pc = "start"
    /\ \E pl \in (IF CallsPolylabel(cap_in, poly, rect_order)
                   THEN PolylabelOutcomes(poly, pl_raise) ELSE { PlRaised }) :
          /\ key_out' = PerformSplitAndKey(cap_in, poly, rect_order, pl, key_in)
          /\ plan' = key_out'.cap
    /\ pc' = "done"
    /\ UNCHANGED <<poly, rect_order, pl_raise, cap_in, pin_in, pin_mesh, key_in,
                   file_registry, disk, next_uuid, response,
                   self_mesh, req_axis, suggestions>>

NextKey == SplitAndKey

SpecKey == InitKey /\ [][NextKey]_vars

----------------------------------------------------------------------------
(* Specification of the server: upload and perform_split requests *)

MaxRequests == 3
MaxFaults == 1

\* the uploaded meshes: the cube of 20 mm, a bar of 60 x 20 x 10 mm and a
\* plate of 40 x 40 x 3 mm
Uploads == { [filename |-> "cube.stl", box |-> <<2000, 2000, 2000>>],
             [filename |-> "bar.stl", box |-> <<6000, 2000, 1000>>],
             [filename |-> "plate.stl", box |-> <<4000, 4000, 300>>] }

Planes(box) ==
    { [axis |-> a, sign |-> sg, at |-> box[a] \div 2] : a \in 1 .. 3, sg \in { 1, -1 } }

FaultSets == { f \in SUBSET FaultPoints : Cardinality(f) <= MaxFaults }

NoResponse ==
    [op |-> "none", status |-> 0, fileId |-> 0, addKeys |-> FALSE, raised |-> {},
     part_a |-> NoPart, part_b |-> NoPart, new_ids |-> {},
     disk_before |-> {}, ids_before |-> {}]

InitServer ==
    /\ pc = 0
    /\ file_registry = {}
    /\ disk = {}
    /\ next_uuid = 1
    /\ response = NoResponse
    /\ poly = PlainPolygon /\ rect_order = <<0, TRUE>> /\ pl_raise = FALSE
    /\ cap_in = Idle /\ plan = NoPlan /\ key_in = Idle /\ key_out = Idle
    /\ pin_in = Idle /\ pin_mesh = Idle
    /\ self_mesh = Idle /\ req_axis = Idle /\ suggestions = Idle

ServerUnchanged ==
    UNCHANGED <<poly, rect_order, pl_raise, cap_in, plan, pin_in, pin_mesh,
                key_in, key_out, self_mesh, req_axis, suggestions>>

\* the registry is a set of <<id, path>>; its keys
RegistryIds == { e[1] : e \in file_registry }

\* POST /upload
UploadFile ==
    /\ pc < MaxRequests
    /\ \E up \in Uploads :
         LET file_id == next_uuid
             file_path == UploadPath(file_id, up.filename)
         IN /\ disk' = disk \cup { [path |-> file_path, content |-> up.box] }
            /\ file_registry' = file_registry \cup { <<file_id, file_path>> }
            /\ next_uuid' = next_uuid + 1
            /\ response' = [NoResponse EXCEPT !.op = "upload", !.status = 200,
                                              !.fileId = file_id,
                                              !.disk_before = disk,
                                              !.ids_before = RegistryIds]
    /\ pc' = pc + 1
    /\ ServerUnchanged

\* POST /perform_split with a fileId that is not in the registry
PerformSplitNotFound ==
    /\ pc < MaxRequests
    /\ \E id \in (1 .. next_uuid) \ RegistryIds, keys \in BOOLEAN :
         response' = [NoResponse EXCEPT !.op = "perform_split", !.status = 404,
                                        !.fileId = id, !.addKeys = keys,
                                        !.disk_before = disk,
                                        !.ids_before = RegistryIds]
    /\ pc' = pc + 1
    /\ UNCHANGED <<file_registry, disk, next_uuid>>
    /\ ServerUnchanged

\* what a request of perform_split leaves: the files, the registry, the
\* response
Served(req, out, seen_disk, seen_ids) ==
    /\ disk' = seen_disk \cup out.files
    /\ file_registry' = file_registry \cup out.ids
    /\ next_uuid' = next_uuid + out.uuids
    /\ response' = [op |-> "perform_split", status |-> out.status,
                    fileId |-> req.fileId, addKeys |-> req.addKeys,
                    raised |-> out.raised,
                    part_a |-> out.part_a, part_b |-> out.part_b,
                    new_ids |-> { i[1] : i \in out.ids },
                    disk_before |-> seen_disk, ids_before |-> seen_ids]

\* POST /perform_split on an uploaded file
PerformSplit ==
    /\ pc < MaxRequests
    /\ \E e \in { r \in file_registry : r[2].dir = "uploads" } :
       \E f \in { d \in disk : d.path = e[2] } :
       \E plane \in Planes(f.content), keys \in BOOLEAN,
          order \in { <<0, TRUE>>, <<1, TRUE>> }, faults \in FaultSets :
         Served([fileId |-> e[1], plane |-> plane, addKeys |-> keys],
                SplitOutcome([fileId |-> e[1], plane |-> plane, addKeys |-> keys],
                             f.content, order, PlRaised, faults,
                             next_uuid, next_uuid + 1, e[2].base),
                disk, RegistryIds)
    /\ pc' = pc + 1
    /\ ServerUnchanged

NextServer == UploadFile \/ PerformSplitNotFound \/ PerformSplit

SpecServer == InitServer /\ [][NextServer]_vars

----------------------------------------------------------------------------
(* Claims on the planner *)

\* the edges of the minimum rotated rectangle, read off the polygon
LongEdge(p) == Max2(RectW(p), RectH(p))
ShortEdge(p) == Min2(RectW(p), RectH(p))
AspectWidth(p) == Max2(ShortEdge(p), MinWidth)

PlannerRan == pc = "done" /\ plan.num_pins # 0

\* C1: with r = L / max(W, 0.1) of the minimum rotated rectangle, the planner
\* chooses 3 pins when r > 10, 2 pins when 3 < r <= 10 and 1 pin when r <= 3;
\* the count is in {1, 2, 3} and no polygon of a larger or equal r gets fewer
\* pins than the polygon analysed.
C1_PinCountByAspect ==
    PlannerRan =>
        LET L == LongEdge(poly)
            W == AspectWidth(poly)
        IN /\ plan.num_pins \in { 1, 2, 3 }
           /\ (L > 10 * W => plan.num_pins = 3)
           /\ (L > 3 * W /\ L <= 10 * W => plan.num_pins = 2)
           /\ (L <= 3 * W => plan.num_pins = 1)
           /\ \A g \in GridShapes :
                LET L2 == Max2(g[1] * g[3][1], g[2] * g[3][2])
                    W2 == Max2(Min2(g[1] * g[3][1], g[2] * g[3][2]), MinWidth)
                IN L2 * W >= L * W2 => NumPins(L2, W2) >= plan.num_pins

\* a rectangle narrower than 0.1 mm whose clamped ratio is exactly 10: 2 pins
C1_Witness ==
    /\ PlannerRan /\ plan.num_pins = 2
    /\ ShortEdge(poly) < MinWidth /\ LongEdge(poly) = 10 * MinWidth

AllCandidatesDiscarded ==
    /\ plan.num_pins > 1 /\ plan.candidates # <<>>
    /\ \A i \in DOMAIN plan.candidates : ~Contains(poly, plan.candidates[i])

\* C2: when _analyze_cap_surface returns a result, the list of centres is not
\* empty and every centre lies in the polygon (boundary included); when every
\* candidate of a multi-pin layout was discarded, exactly one centre, the pole
\* of inaccessibility, is returned.
C2_CentersInsidePolygon ==
    (pc = "done" /\ plan.result = "ok") =>
        /\ plan.centers # <<>>
        /\ \A i \in DOMAIN plan.centers : Covers(poly, plan.centers[i])
        /\ (AllCandidatesDiscarded =>
                /\ Len(plan.centers) = 1
                /\ plan.centers[1] \in PolylabelPoints(poly))

\* a multi-pin layout whose candidates were all discarded returned the fallback
C2_Witness ==
    /\ pc = "done" /\ plan.result = "ok"
    /\ AllCandidatesDiscarded /\ Len(plan.centers) = 1

----------------------------------------------------------------------------
(* Specification of the generator: one call of _create_chamfered_pin *)

PinRadii == { 100, 200, 300 }
PinHeights == { 300, 1000, 1200 }
PinChamfers == { 20, 40, 100, 200, 300, 500 }

InitPin ==
    /\ pc = "start"
    /\ pin_in \in [radius : PinRadii, height : PinHeights, chamfer : PinChamfers,
                    taper_top : BOOLEAN, flare_bottom : BOOLEAN]
    /\ pin_mesh = Idle
    /\ poly = PlainPolygon /\ rect_order = <<0, TRUE>> /\ pl_raise = FALSE
    /\ cap_in = Idle /\ plan = NoPlan /\ key_in = Idle /\ key_out = Idle
    /\ file_registry = Idle /\ disk = Idle /\ next_uuid = 0 /\ response = Idle
    /\ self_mesh = Idle /\ req_axis = Idle /\ suggestions = Idle

CreatePin ==
    /\ pc = "start"
    /\ pin_mesh' = CreateChamferedPin(pin_in.radius, pin_in.height, pin_in.chamfer,
                                      pin_in.taper_top, pin_in.flare_bottom)
    /\ pc' = "done"
    /\ UNCHANGED <<poly, rect_order, pl_raise, cap_in, plan, pin_in, key_in,
                   key_out, file_registry, disk, next_uuid, response,
                   self_mesh, req_axis, suggestions>>

NextPin == CreatePin

SpecPin == InitPin /\ [][NextPin]_vars

----------------------------------------------------------------------------
(* Claims on the keying *)

KeysPlaced == pc = "done" /\ key_out.keyed

\* C3: for every safe radius >= 0 returned by the planner, pin_radius is
\* 0.6 * safe_radius held to [2.0, 20.0], pin_height is 3 * pin_radius held to
\* [10.0, 30.0], the holes are as deep as the pins are high, and
\* hole_radius - pin_radius = 0.2; every pin and cutter is built with them.
C3_SmartSizing ==
    KeysPlaced =>
        LET sr == key_out.cap.max_radius
            pr == key_out.pin_radius
            ph == key_out.pin_height
        IN /\ sr >= 0
           /\ pr >= 200 /\ pr <= 2000
           /\ (6 * sr < 2000 => pr = 200)
           /\ (6 * sr >= 20000 => pr = 2000)
           /\ (6 * sr >= 2000 /\ 6 * sr < 20000 => pr = (6 * sr) \div 10)
           /\ ph >= 1000 /\ ph <= 3000
           /\ (3 * pr < 1000 => ph = 1000)
           /\ (3 * pr > 3000 => ph = 3000)
           /\ (3 * pr >= 1000 /\ 3 * pr <= 3000 => ph = 3 * pr)
           /\ key_out.hole_height = ph
           /\ key_out.hole_radius - pr = 20
           /\ \A i \in DOMAIN key_out.pins :
                /\ key_out.pins[i].radius = pr
                /\ key_out.pins[i].height = ph
                /\ key_out.hole_cutters[i].radius = pr + 20
                /\ key_out.hole_cutters[i].height = ph

\* a safe radius of 0.5 mm: the radius is raised to 2 mm, the height to 10 mm
C3_Witness ==
    /\ KeysPlaced /\ key_out.cap.max_radius = 50
    /\ key_out.pin_radius = 200 /\ key_out.pin_height = 1000

\* the cap of the cube of 20 mm cut through its centre: a full square of 20 mm
CubeCap == RectW(poly) = 2000 /\ RectH(poly) = 2000
           /\ poly.cells = GridCells(poly.nc, poly.nr)

\* C4 as stated: on the cap of the cube one pin is placed and its radius is
\* the lower clamp, 2.0 mm
C4_CubePinClampedTo2mm ==
    (KeysPlaced /\ CubeCap) =>
        Len(key_out.pins) = 1 /\ key_out.pin_radius = 200

\* C4 amended: on the cap of the cube one pin is placed at the centre, the safe
\* radius is 10 mm and the pin radius is 0.6 * 10 = 6.0 mm, inside the clamps
C4_CubePinRadius6mm ==
    (KeysPlaced /\ CubeCap) =>
        /\ Len(key_out.pins) = 1
        /\ key_out.pins[1].center = Pt(1000, 1000)
        /\ key_out.cap.max_radius = 1000
        /\ key_out.pin_radius = 600
        /\ key_out.pins[1].radius = 600

C4_Witness == KeysPlaced /\ CubeCap /\ Len(key_out.pins) = 1

\* C6: once the pins and cutters are built, the method returns both halves
\* whatever the booleans do: half A is the union, or half A concatenated with
\* the pins when the union raises; half B is the difference, or the sliced
\* half B when the difference raises; neither depends on the other.
C6_BooleanFailureFallback ==
    KeysPlaced =>
        /\ key_out.status = "returned"
        /\ key_out.pins # <<>> /\ key_out.hole_cutters # <<>>
        /\ key_out.part_a =
              [body |-> "A", parts |-> key_out.pins,
               op |-> IF key_in.union_raises THEN "concatenate" ELSE "union"]
        /\ key_out.part_b =
              IF key_in.difference_raises
              THEN [body |-> "B", op |-> "slice", parts |-> <<>>]
              ELSE [body |-> "B", op |-> "difference", parts |-> key_out.hole_cutters]

\* both booleans raised and both halves came back
C6_Witness ==
    /\ KeysPlaced /\ key_in.union_raises /\ key_in.difference_raises
    /\ key_out.status = "returned"

\* no face of half A has its three vertices within 1e-4 of the plane
NoFaceOnPlane ==
    \A i \in DOMAIN cap_in.faces : \E k \in 1 .. 3 : Abs(cap_in.faces[i][k]) >= 10

NoCapFound ==
    \/ NoFaceOnPlane
    \/ cap_in.projected = "empty"
    \/ cap_in.error
    \/ plan.stage \in { "p3 unbound", "polylabel raised" }

\* C7: when the extractor finds no cap (no face on the plane, an empty
\* projection, an error during the analysis), no pin or cutter is built, no
\* boolean runs and the two sliced halves are returned as they are.
C7_NoCapSkipsKeying ==
    (pc = "done" /\ NoCapFound) =>
        /\ key_out.status = "returned"
        /\ ~key_out.keyed
        /\ key_out.pins = <<>> /\ key_out.hole_cutters = <<>>
        /\ key_out.booleans = {}
        /\ key_out.part_a = [body |-> "A", op |-> "slice", parts |-> <<>>]
        /\ key_out.part_b = [body |-> "B", op |-> "slice", parts |-> <<>>]

\* a half whose nearest face has a vertex just at the tolerance
C7_Witness ==
    /\ pc = "done" /\ key_out.status = "returned"
    /\ NoFaceOnPlane /\ \E i \in DOMAIN cap_in.faces : cap_in.faces[i][1] = 10

----------------------------------------------------------------------------
(* Claims on the generator *)

\* vertex k (from 0) of a mesh
Vtx(m, k) == m.vertices[k + 1]

\* the normal (B - A) x (C - A) of a face
FaceNormal(m, f) ==
    LET A == Vtx(m, f[1])
        B == Vtx(m, f[2])
        C == Vtx(m, f[3])
        u == << B[1] - A[1], B[2] - A[2], B[3] - A[3] >>
        v == << C[1] - A[1], C[2] - A[2], C[3] - A[3] >>
    IN << u[2] * v[3] - u[3] * v[2], u[3] * v[1] - u[1] * v[3],
          u[1] * v[2] - u[2] * v[1] >>

\* the normal of a face points away from the axis at the place of the face
PointsAwayFromAxis(m, f) ==
    LET n == FaceNormal(m, f)
        A == Vtx(m, f[1])
        B == Vtx(m, f[2])
        C == Vtx(m, f[3])
    IN n[1] * (A[1] + B[1] + C[1]) + n[2] * (A[2] + B[2] + C[2]) > 0

DirectedEdges(faces) ==
    UNION { { <<faces[i][1], faces[i][2]>>, <<faces[i][2], faces[i][3]>>,
              <<faces[i][3], faces[i][1]>> } : i \in DOMAIN faces }

\* every edge is used by exactly two triangles, in opposite directions
Watertight(faces) ==
    LET E == DirectedEdges(faces)
    IN /\ Cardinality(E) = 3 * Len(faces)
       /\ \A e \in E : e[1] # e[2] /\ <<e[2], e[1]>> \in E

\* C5: for every radius, height, chamfer > 0 and every choice of the flags the
\* mesh has 32 * num_rings + 2 vertices (num_rings from 2 to 4), is watertight,
\* and its side walls, bottom fan and top fan are wound with outward normals.
C5_PinMeshClosedOutward ==
    pc = "done" =>
        LET num_rings == Len(pin_mesh.profile)
            nside == 2 * Sections * (num_rings - 1)
        IN /\ num_rings \in 2 .. 4
           /\ Len(pin_mesh.vertices) = Sections * num_rings + 2
           /\ Watertight(pin_mesh.faces)
           /\ \A k \in 1 .. nside : PointsAwayFromAxis(pin_mesh, pin_mesh.faces[k])
           /\ \A k \in nside + 1 .. nside + Sections :
                 FaceNormal(pin_mesh, pin_mesh.faces[k])[3] < 0
           /\ \A k \in nside + Sections + 1 .. nside + 2 * Sections :
                 FaceNormal(pin_mesh, pin_mesh.faces[k])[3] > 0

\* the same statement for the calls whose chamfer, once fitted to the height,
\* is shorter than the radius
ChamferBelowRadius ==
    ~pin_in.taper_top
    \/ FitChamfer(pin_in.height, pin_in.chamfer, pin_in.taper_top,
                  pin_in.flare_bottom) < pin_in.radius

PinMeshClosedOutwardWhenChamferFits ==
    (pc = "done" /\ ChamferBelowRadius) => C5_PinMeshClosedOutward

----------------------------------------------------------------------------
(* Claims on the server *)

\* the last request was a perform_split that reached the handler's body
SplitAnswered == response.op = "perform_split" /\ response.status # 404

\* C8: a failure of align_vectors is not fatal at any point of a split
\* request: when the only calls that raised are calls of align_vectors, the
\* request completes and returns both halves.  The call at
\* smart_splitter.py:167 stands outside every try: TLC finds the request
\* answered with 500.
C8_AlignFailureNonFatal ==
    (SplitAnswered /\ response.raised # {} /\ response.raised \subseteq AlignPoints)
        => response.status = 200

\* a half lies on the build plate with its cut face down on Z = 0
CutFaceOnFloor(part) ==
    part.cut_lo = 0 /\ part.cut_hi = 0 /\ part.cut_down /\ part.zlo = 0

\* C9: after perform_split has reoriented the halves and dropped them to the
\* floor, each returned half has its cut face on Z = 0, facing down, and its
\* lowest Z is 0.  The pins of half A stand out of its cut face: TLC finds
\* half A resting on the tips of its pins.
C9_CutFaceOnFloor ==
    (SplitAnswered /\ response.status = 200
       /\ response.raised \cap { "align_a", "align_b" } = {})
        => CutFaceOnFloor(response.part_a) /\ CutFaceOnFloor(response.part_b)

\* the output files a request added to the disk
NewOutputs == { f \in disk \ response.disk_before : f.path.dir = "outputs" }

\* C10: a perform_split that ends in an error response (404 or 500) leaves no
\* output file of the request on disk and no new id in the registry; a
\* request that returns successfully leaves both files and both entries.
\* The handler exports part A before part B and registers both before it
\* reads the volumes: TLC finds a 500 with part A on disk.
C10_OutputsOnlyOnSuccess ==
    response.op = "perform_split" =>
        IF response.status = 200
        THEN Cardinality(NewOutputs) = 2
             /\ Cardinality(RegistryIds \ response.ids_before) = 2
        ELSE NewOutputs = {} /\ RegistryIds = response.ids_before

----------------------------------------------------------------------------
(* Claims on the fit of the pins *)

\* C11: a pin sized by perform_split_and_key cannot leave the cap: for every
\* centre the planner returned, the pin radius is no greater than the distance
\* from that centre to the boundary of the cap polygon.  The radius is held to
\* at least 2.0 mm whatever the clearance, and the clearance is measured at
\* the first centre only: TLC finds a pin wider than the cap around it.
C11_PinInsideCap ==
    KeysPlaced =>
        \A i \in DOMAIN key_out.cap.centers :
            key_out.pin_radius <= BoundaryDistance(poly, key_out.cap.centers[i])

----------------------------------------------------------------------------
(* suggest_split: main.py's handler and SmartSplitter.suggest_split *)

\* A mesh is [lo, hi, centroid]: mesh.bounds[0] and mesh.bounds[1] in units of
\* 0.01 mm, mesh.centroid in half units, so that a mid point is a whole number.
\* A string is the sequence of its characters; req.axis is [present, text],
\* present being FALSE for None; the axis index None of Python is the empty
\* set and the index i is { i }.

\* str.lower() on one character
LowerChar(c) ==
    CASE c = "X" -> "x" [] c = "Y" -> "y" [] c = "Z" -> "z" [] c = "W" -> "w"
      [] OTHER -> c

\* str.lower()
Lower(str) == [k \in DOMAIN str |-> LowerChar(str[k])]

\* {'x': 0, 'y': 1, 'z': 2}.get(key)
AxisMapGet(key) ==
    IF key = <<"x">> THEN { 0 }
    ELSE IF key = <<"y">> THEN { 1 }
    ELSE IF key = <<"z">> THEN { 2 }
    ELSE {}

\* the handler's axis_idx: None unless req.axis is a non-empty string
RequestAxisIdx(hint) ==
    IF ~hint.present \/ hint.text = <<>> THEN {} ELSE AxisMapGet(Lower(hint.text))

\* mesh.extents
Extents(m) == [k \in 1 .. 3 |-> m.hi[k] - m.lo[k]]

\* mutant: the scan keeps the last of the largest extents
RECURSIVE ArgMaxLast(_, _, _)
ArgMaxLast(extents, k, best) ==
    IF k > Len(extents) THEN best - 1
    ELSE ArgMaxLast(extents, k + 1, IF extents[k] >= extents[best] THEN k ELSE best)

\* np.argmax(extents): the scan keeps the first of the largest extents; the
\* result counts from 0
RECURSIVE ArgMax(_, _, _)
ArgMax(extents, k, best) ==
    IF k > Len(extents) THEN best - 1
    ELSE ArgMax(extents, k + 1, IF extents[k] > extents[best] THEN k ELSE best)

\* SmartSplitter.suggest_split(axis_idx): origin (in half units) and normal
SuggestSplit(m, axis_idx_arg) ==
    LET axis_idx == IF axis_idx_arg = {} THEN ArgMax(Extents(m), 1, 1)
                    ELSE CHOOSE i \in axis_idx_arg : TRUE
        mid_point == m.lo[axis_idx + 1] + m.hi[axis_idx + 1]
    IN [origin |-> [m.centroid EXCEPT ![axis_idx + 1] = mid_point],
        normal |-> [k \in 1 .. 3 |-> IF k = axis_idx + 1 THEN 1 ELSE 0]]

MaxCalls == 2

\* the lower corners, the extents and the offsets of the centroid from the
\* centre of the bounds (in half units) of the meshes explored
MeshCorners == { <<0, 0, 0>>, <<-700, 300, -100>> }
MeshExtents == { e \in [1 .. 3 -> { 1000, 2000 }] : TRUE }
CentroidOffsets == { <<0, 0, 0>>, <<100, -60, 30>> }

Meshes ==
    { [lo |-> l, hi |-> [k \in 1 .. 3 |-> l[k] + e[k]],
       centroid |-> [k \in 1 .. 3 |-> 2 * l[k] + e[k] + o[k]]] :
        l \in MeshCorners, e \in MeshExtents, o \in CentroidOffsets }

\* req.axis: absent, empty, the three names in both cases, unknown names
AxisHints ==
    { [present |-> FALSE, text |-> <<>>] }
    \cup
    { [present |-> TRUE, text |-> t] :
        t \in { <<>>, <<"x">>, <<"X">>, <<"y">>, <<"Y">>, <<"z">>, <<"Z">>,
                <<"w">>, <<"W">>, <<"x", "y">>, <<"X", "Z">> } }

InitSuggest ==
    /\ pc = 0
    /\ self_mesh \in Meshes
    /\ req_axis \in AxisHints
    /\ suggestions = <<>>
    /\ poly = PlainPolygon /\ rect_order = <<0, TRUE>> /\ pl_raise = FALSE
    /\ cap_in = Idle /\ plan = NoPlan /\ key_in = Idle /\ key_out = Idle
    /\ pin_in = Idle /\ pin_mesh = Idle
    /\ file_registry = Idle /\ disk = Idle /\ next_uuid = 0 /\ response = Idle

\* POST /suggest_split on a registered file whose mesh is self_mesh: the handler
\* loads the mesh anew, maps req.axis and answers with position and normal
SuggestSplitRequest ==
    /\ pc < MaxCalls
    /\ suggestions' = Append(suggestions, SuggestSplit(self_mesh, RequestAxisIdx(req_axis)))
    /\ pc' = pc + 1
    /\ UNCHANGED <<self_mesh, req_axis, poly, rect_order, pl_raise, cap_in, plan, pin_in,
                   pin_mesh, key_in, key_out, file_registry, disk, next_uuid,
                   response>>

NextSuggest == SuggestSplitRequest

SpecSuggest == InitSuggest /\ [][NextSuggest]_vars

\* the axis the hint names: 'x', 'y', 'z' in either case, else the first of
\* the longest axes
NamedAxis ==
    IF req_axis.present /\ req_axis.text \in { <<"x">>, <<"X">> } THEN 0
    ELSE IF req_axis.present /\ req_axis.text \in { <<"y">>, <<"Y">> } THEN 1
    ELSE IF req_axis.present /\ req_axis.text \in { <<"z">>, <<"Z">> } THEN 2
    ELSE CHOOSE i \in 0 .. 2 :
            /\ \A j \in 0 .. 2 : Extents(self_mesh)[i + 1] >= Extents(self_mesh)[j + 1]
            /\ \A j \in 0 .. i - 1 : Extents(self_mesh)[j + 1] < Extents(self_mesh)[i + 1]

\* C12: suggest_split takes the axis the hint names without regard to case,
\* or else the first of the longest axes; the normal is the positive unit
\* vector of that axis, the origin is the centroid with that coordinate
\* replaced by the middle of the bounds, and a second call on the same mesh
\* and hint answers the same.
C12_SuggestSplitPlane ==
    \A n \in DOMAIN suggestions :
        /\ suggestions[n].normal =
               [k \in 1 .. 3 |-> IF k = NamedAxis + 1 THEN 1 ELSE 0]
        /\ \A k \in 1 .. 3 :
               suggestions[n].origin[k] =
                   IF k = NamedAxis + 1 THEN self_mesh.lo[k] + self_mesh.hi[k]
                                        ELSE self_mesh.centroid[k]
        /\ suggestions[n] = suggestions[1]

\* two calls were made on a mesh with two longest axes and a centroid off
\* the centre of its bounds, with a hint that names no axis
C12_Witness ==
    /\ Len(suggestions) = 2
    /\ req_axis = [present |-> TRUE, text |-> <<"W">>]
    /\ Extents(self_mesh) = <<1000, 2000, 2000>>
    /\ self_mesh.centroid[2] # self_mesh.lo[2] + self_mesh.hi[2]
    /\ suggestions[2].normal = <<0, 1, 0>>

----------------------------------------------------------------------------
(* Claims on the multi-pin layout *)

\* the two ends of the long centre line of the minimum rotated rectangle: the
\* middles of its two short edges
ShortEdgeMiddles(p) ==
    IF RectW(p) >= RectH(p)
    THEN << Pt(0, RectH(p) \div 2), Pt(RectW(p), RectH(p) \div 2) >>
    ELSE << Pt(RectW(p) \div 2, 0), Pt(RectW(p) \div 2, RectH(p)) >>

\* q lies at the fraction num / den of the way from s to e, to the unit
AtFraction(q, s, e, num, den) ==
    /\ Abs(den * (q.x - s.x) - num * (e.x - s.x)) < den
    /\ Abs(den * (q.y - s.y) - num * (e.y - s.y)) < den

\* the indices of the candidates that lie inside the polygon
Surviving == { i \in DOMAIN plan.candidates : Contains(poly, plan.candidates[i]) }

\* C13: in a layout of n = 2 or 3 pins, candidate i (from 0) lies at the
\* fraction (2i+1)/(2n) of the long centre line, which joins the middles of
\* the two short edges of the minimum rotated rectangle, and the candidates
\* that survive are returned in increasing order of i.  When the rectangle
\* starts with a short edge the code reads p3 before it is assigned and the
\* planner returns nothing: TLC finds a layout of 2 pins with no candidate.
C13_MultiPinFractions ==
    (PlannerRan /\ plan.num_pins \in { 2, 3 }) =>
        LET n == plan.num_pins
            m == ShortEdgeMiddles(poly)
        IN /\ Len(plan.candidates) = n
           /\ \E d \in { <<1, 2>>, <<2, 1>> } :
                 \A i \in 0 .. n - 1 :
                     AtFraction(plan.candidates[i + 1], m[d[1]], m[d[2]],
                                2 * i + 1, 2 * n)
           /\ plan.result = "ok"
           /\ (Surviving # {} =>
                 /\ Len(plan.centers) = Cardinality(Surviving)
                 /\ \A k \in DOMAIN plan.centers :
                       \E i \in Surviving :
                           /\ plan.centers[k] = plan.candidates[i]
                           /\ Cardinality({ j \in Surviving : j < i }) = k - 1)

----------------------------------------------------------------------------
(* Claims on the profile of a pin *)

\* the number of chamfers the flags ask for
ChamfersAsked == (IF pin_in.taper_top THEN 1 ELSE 0)
                 + (IF pin_in.flare_bottom THEN 1 ELSE 0)

\* C14: when (taper_top + flare_bottom) * c >= h the chamfer becomes h/3 (to
\* the unit), otherwise it is left as given; the profile is then (0, r+c),
\* (c, r) for a flared bottom or (0, r) otherwise, followed by (h-c, r),
\* (h, r-c) for a tapered top or (h, r) otherwise, and its z values rise
\* strictly from 0 to h.
C14_ChamferFitsProfile ==
    pc = "done" =>
        LET r == pin_in.radius
            h == pin_in.height
            prof == pin_mesh.profile
        IN \E c \in 0 .. Max2(h, pin_in.chamfer) :
            /\ IF ChamfersAsked * pin_in.chamfer >= h
               THEN 3 * c <= h /\ h < 3 * c + 3
               ELSE c = pin_in.chamfer
            /\ prof = (IF pin_in.flare_bottom THEN << <<0, r + c>>, <<c, r>> >>
                                              ELSE << <<0, r>> >>)
                      \o (IF pin_in.taper_top THEN << <<h - c, r>>, <<h, r - c>> >>
                                              ELSE << <<h, r>> >>)
            /\ prof[1][1] = 0 /\ prof[Len(prof)][1] = h
            /\ \A k \in 1 .. Len(prof) - 1 : prof[k][1] < prof[k + 1][1]

\* a pin with both chamfers whose chamfers together need exactly the height:
\* the chamfer was refitted to a third of the height
C14_Witness ==
    /\ pc = "done"
    /\ pin_in.taper_top /\ pin_in.flare_bottom
    /\ 2 * pin_in.chamfer = pin_in.height
    /\ Len(pin_mesh.profile) = 4
    /\ pin_mesh.profile[2][1] = pin_in.height \div 3

----------------------------------------------------------------------------
(* Claims on the clearance of the holes *)

\* the segment of a profile that holds the height z
SegmentAt(prof, z) ==
    CHOOSE k \in 1 .. Len(prof) - 1 : prof[k][1] <= z /\ z <= prof[k + 1][1]

\* the radius of a profile at the height z, as a fraction <<num, den>>: the
\* profile runs straight from one of its points to the next
RadiusAt(prof, z) ==
    LET k == SegmentAt(prof, z)
        a == prof[k]
        b == prof[k + 1]
    IN IF a[2] = b[2] THEN <<a[2], 1>>
       ELSE << a[2] * (b[1] - a[1]) + (b[2] - a[2]) * (z - a[1]), b[1] - a[1] >>

\* the heights where one of two profiles bends: between two of them both
\* radii run straight, so the least clearance is taken at one of them
BendHeights(prof_a, prof_b) ==
    { prof_a[k][1] : k \in DOMAIN prof_a } \cup { prof_b[k][1] : k \in DOMAIN prof_b }

\* the cutter is wider than the pin by at least gap at the height z
ClearsAt(cutter, pin, z, gap) ==
    LET rc == RadiusAt(cutter.profile, z)
        rp == RadiusAt(pin.profile, z)
    IN rc[1] * rp[2] - rp[1] * rc[2] >= gap * rc[2] * rp[2]

\* C15: for every pin radius in [2.0, 20.0] mm that the sizing produces, the
\* cutter at a centre has the centre, the axis and the height of the pin at
\* that centre, its radius exceeds the radius of the pin by at least 0.2 mm at
\* every height from 0 to pin_height, and neither profile had its chamfer
\* refitted to the height.
C15_CutterEnclosesPin ==
    KeysPlaced =>
        /\ key_out.pin_radius >= 200 /\ key_out.pin_radius <= 2000
        /\ Len(key_out.hole_cutters) = Len(key_out.pins)
        /\ \A i \in DOMAIN key_out.pins :
            LET pin == key_out.pins[i]
                cutter == key_out.hole_cutters[i]
            IN /\ cutter.center = pin.center
               /\ cutter.axis = pin.axis /\ pin.axis = "-normal"
               /\ cutter.height = pin.height /\ pin.height = key_out.pin_height
               /\ \A z \in BendHeights(pin.profile, cutter.profile) :
                     /\ z >= 0 /\ z <= pin.height
                     /\ ClearsAt(cutter, pin, z, 20)
               \* no refit: the chamfers asked for need less than the height
               /\ 2 * ((2 * pin.radius) \div 10) < pin.height
               /\ (2 * cutter.radius) \div 10 < cutter.height
               /\ pin.profile[2][1] = (2 * pin.radius) \div 10
               /\ cutter.profile[2][1] = (2 * cutter.radius) \div 10

\* keys were placed with the widest pin, 20 mm: a pin with both chamfers in a
\* cutter with a flared mouth and a flat end
C15_Witness ==
    /\ KeysPlaced
    /\ key_out.pin_radius = 2000
    /\ Len(key_out.pins[1].profile) = 4
    /\ Len(key_out.hole_cutters[1].profile) = 3

====
